---- MODULE Spec2Model ----
(***************************************************************************)
(* Model of the input-resolution pipeline of the Auto EDA Generator page   *)
(* (src/app.py): file upload, CSV URL, Kaggle dataset and Kaggle token     *)
(* tabs, the two memoised Kaggle helpers, and the preview stage.           *)
(*                                                                         *)
(* Python strings are sequences of one-character strings, so substring     *)
(* tests, str.replace, str.endswith, re.search and pathlib's stem are      *)
(* computed character by character as the interpreter computes them.       *)
(***************************************************************************)
EXTENDS Integers, Sequences, FiniteSets, TLC

VARIABLES
    pc,                  \* position of the script run: "tab1" .. "done"
    uploaded_file,       \* tab1 st.file_uploader value (NoFile or [name, content])
    pasted_url,          \* tab2 st.text_input value as typed
    csv_url,             \* tab2 csv_url after link rewriting (NoneStr for None)
    prev_url,            \* csv_url shown by the previous run ("link converted")
    df,                  \* the loaded DataFrame, NoneDf for None
    input_name,          \* the derived dataset name
    errors,              \* st.error messages rendered in this run
    kaggle_dataset_name, \* tab3 st.text_input value
    kaggle_csv_files,    \* tab3 listing: sequence of [name, content]
    mode,                \* tab3 st.radio value
    selected_csvs,       \* tab3 multi-EDA: st.multiselect value, file names
    reports,             \* tab3 multi-EDA: file names whose report was rendered
    client_calls,        \* Kaggle client functions invoked in this run
    kaggle_json,         \* content of ~/.kaggle/kaggle.json (NoContent: absent)
    api_memo,            \* st.cache_resource memo of get_kaggle_api
    last_api,            \* last get_kaggle_api call: argument and result
    listing_memo,        \* st.cache_data memo of download_kaggle_csvs
    last_dl,             \* last download_kaggle_csvs call and what it did
    preview_title,       \* name in the preview heading (NoneStr: no preview)
    report_name          \* file name of the generated report (NoneStr: none)

vars == <<pc, uploaded_file, pasted_url, csv_url, prev_url, df, input_name,
          errors, kaggle_dataset_name, kaggle_csv_files, mode, selected_csvs, reports,
          client_calls, kaggle_json, api_memo, last_api, listing_memo, last_dl,
          preview_title, report_name>>

(***************************************************************************)
(* Python str operations                                                   *)
(***************************************************************************)

\* abcdefghijklmnopqrstuvwxyz
LowerCase == <<"a", "b", "c", "d", "e", "f", "g", "h", "i", "j", "k", "l", "m", "n", "o", "p", "q", "r", "s", "t", "u", "v", "w", "x", "y", "z">>
\* ABCDEFGHIJKLMNOPQRSTUVWXYZ
UpperCase == <<"A", "B", "C", "D", "E", "F", "G", "H", "I", "J", "K", "L", "M", "N", "O", "P", "Q", "R", "S", "T", "U", "V", "W", "X", "Y", "Z">>

\* s[i:i+len(sub)] == sub
MatchAt(s, sub, i) ==
    /\ i >= 1
    /\ i + Len(sub) - 1 <= Len(s)
    /\ \A k \in 1..Len(sub) : s[i + k - 1] = sub[k]

\* Python: sub in s
Contains(s, sub) == \E i \in 1..(Len(s) - Len(sub) + 1) : MatchAt(s, sub, i)

\* Python: s.endswith(suf)
EndsWith(s, suf) == Len(suf) <= Len(s) /\ MatchAt(s, suf, Len(s) - Len(suf) + 1)

\* Python: s.replace(old, new), leftmost non-overlapping occurrences
RECURSIVE Replace(_, _, _)
Replace(s, old, new) ==
    IF Len(s) < Len(old) \/ Len(old) = 0 THEN s
    ELSE IF MatchAt(s, old, 1)
         THEN new \o Replace(SubSeq(s, Len(old) + 1, Len(s)), old, new)
         ELSE <<s[1]>> \o Replace(Tail(s), old, new)

\* Python: s.strip() (the only whitespace of the inputs is the blank)
RECURSIVE LStrip(_)
LStrip(s) == IF s # <<>> /\ s[1] = " " THEN LStrip(Tail(s)) ELSE s

RECURSIVE RStrip(_)
RStrip(s) ==
    IF s # <<>> /\ s[Len(s)] = " " THEN RStrip(SubSeq(s, 1, Len(s) - 1)) ELSE s

Strip(s) == RStrip(LStrip(s))

\* Python: s.lower()
LowerChar(c) ==
    IF \E i \in 1..Len(UpperCase) : UpperCase[i] = c
    THEN LowerCase[CHOOSE i \in 1..Len(UpperCase) : UpperCase[i] = c]
    ELSE c

Lower(s) == [i \in 1..Len(s) |-> LowerChar(s[i])]

\* Python: s.rfind(c) for a one-character c, as a 1-based index (0: absent)
RFind(s, c) ==
    IF \E i \in 1..Len(s) : s[i] = c
    THEN CHOOSE i \in 1..Len(s) : s[i] = c /\ \A j \in (i + 1)..Len(s) : s[j] # c
    ELSE 0

\* Python: s.split("/")
RECURSIVE Split(_, _)
Split(s, c) ==
    IF \E i \in 1..Len(s) : s[i] = c
    THEN LET i == CHOOSE k \in 1..Len(s) : s[k] = c /\ \A j \in 1..(k - 1) : s[j] # c
         IN  <<SubSeq(s, 1, i - 1)>> \o Split(SubSeq(s, i + 1, Len(s)), c)
    ELSE <<s>>

\* The value None where the code holds a str or None
NoneStr == <<"None">>

\* Python truth value of a str-or-None
Truthy(s) == s # NoneStr /\ s # <<>>

(***************************************************************************)
(* pathlib: Path(s).stem on a POSIX host                                   *)
(***************************************************************************)
\* PurePosixPath parts below the anchor: empty and "." components are dropped
PathParts(s) == SelectSeq(Split(s, "/"), LAMBDA p : p # <<>> /\ p # <<".">>)

\* Path(s).name
PathName(s) ==
    LET parts == PathParts(s) IN IF parts = <<>> THEN <<>> ELSE parts[Len(parts)]

\* Path(s).stem: the name up to its last dot, when that dot is inner
PathStem(s) ==
    LET name == PathName(s)
        i    == RFind(name, ".")
    IN  IF 1 < i /\ i < Len(name) THEN SubSeq(name, 1, i - 1) ELSE name

(***************************************************************************)
(* String constants of the page                                            *)
(***************************************************************************)
DefaultName == <<"d", "a", "t", "a", "s", "e", "t">>
\* github.com
GithubHost == <<"g", "i", "t", "h", "u", "b", ".", "c", "o", "m">>
\* https://github.com/
GithubPrefix == <<"h", "t", "t", "p", "s", ":", "/", "/", "g", "i", "t", "h", "u", "b", ".", "c", "o", "m", "/">>
\* https://raw.githubusercontent.com/
RawPrefix == <<"h", "t", "t", "p", "s", ":", "/", "/", "r", "a", "w", ".", "g", "i", "t", "h", "u", "b", "u", "s", "e", "r", "c", "o", "n", "t", "e", "n", "t", ".", "c", "o", "m", "/">>
BlobSeg == <<"/", "b", "l", "o", "b", "/">>
Slash == <<"/">>
\* drive.google.com
DriveHost == <<"d", "r", "i", "v", "e", ".", "g", "o", "o", "g", "l", "e", ".", "c", "o", "m">>
\* https://drive.google.com/uc?export=download&id=
DriveDirect == <<"h", "t", "t", "p", "s", ":", "/", "/", "d", "r", "i", "v", "e", ".", "g", "o", "o", "g", "l", "e", ".", "c", "o", "m", "/", "u", "c", "?", "e", "x", "p", "o", "r", "t", "=", "d", "o", "w", "n", "l", "o", "a", "d", "&", "i", "d", "=">>
DrivePat == <<"/", "d", "/">>
HtmlMarker == <<"<", "h", "t", "m", "l">>
ExtCsv == <<".", "c", "s", "v">>
ExtTxt == <<".", "t", "x", "t">>
ExtXlsx == <<".", "x", "l", "s", "x">>
ExtXls == <<".", "x", "l", "s">>
ExtJson == <<".", "j", "s", "o", "n">>
Underscore == <<"_">>
MergedSuffix == <<"_", "m", "e", "r", "g", "e", "d">>

\* the character class [a-zA-Z0-9_-] of the Google Drive pattern
IdChars == {"a", "b", "c", "d", "e", "f", "g", "h", "i", "j", "k", "l", "m", "n", "o", "p", "q", "r", "s", "t", "u", "v", "w", "x", "y", "z", "A", "B", "C", "D", "E", "F", "G", "H", "I", "J", "K", "L", "M", "N", "O", "P", "Q", "R", "S", "T", "U", "V", "W", "X", "Y", "Z", "0", "1", "2", "3", "4", "5", "6", "7", "8", "9", "_", "-"}

(***************************************************************************)
(* tab2: link rewriting                                                    *)
(***************************************************************************)
\* re.search(r"/d/([a-zA-Z0-9_-]+)", s): start of the leftmost match, 0 if none
DriveMatchStart(s) ==
    LET hits == {i \in 1..Len(s) :
                    MatchAt(s, DrivePat, i) /\ i + 3 <= Len(s) /\ s[i + 3] \in IdChars}
    IN  IF hits = {} THEN 0 ELSE CHOOSE i \in hits : \A j \in hits : i <= j

\* match.group(1): the longest run of id characters after "/d/"
DriveFileId(s) ==
    LET b == DriveMatchStart(s) + 3
        e == CHOOSE k \in b..Len(s) :
                 /\ \A j \in b..k : s[j] \in IdChars
                 /\ (k = Len(s) \/ s[k + 1] \notin IdChars)
    IN  SubSeq(s, b, e)

IsGithubBlob(u) == Contains(u, GithubHost) /\ Contains(u, BlobSeg)

IsDrive(u) == Contains(u, DriveHost)

\* csv_url after lines 307-328, given the text typed into the field
RewriteLink(typed) ==
    LET original_url == Strip(typed) IN
    IF IsGithubBlob(original_url)
    THEN Replace(Replace(original_url, GithubPrefix, RawPrefix), BlobSeg, Slash)
    ELSE IF IsDrive(original_url)
         THEN IF DriveMatchStart(original_url) # 0
              THEN DriveDirect \o DriveFileId(original_url)
              ELSE NoneStr
         ELSE typed

(***************************************************************************)
(* DataFrames.  A frame is its ordered column names and its rows; a row    *)
(* maps every column of the frame to a cell.  Cells are strings.           *)
(***************************************************************************)
NoneDf == [none |-> TRUE]             \* the value None where the code holds a frame

Malformed == [malformed |-> TRUE]     \* content the pandas parser raises on

NaN == <<"NaN">>                      \* the missing-marker pandas fills in

SourceCol == "__source_file__"

Range(s) == {s[i] : i \in 1..Len(s)}

\* temp_df[col] = value: the column is overwritten in place or appended
SetColumn(t, col, value) ==
    LET cols == IF col \in Range(t.columns) THEN t.columns ELSE Append(t.columns, col)
    IN  [columns |-> cols,
         rows    |-> [i \in 1..Len(t.rows) |->
                        [c \in Range(cols) |-> IF c = col THEN value ELSE t.rows[i][c]]]]

\* the columns of b that a lacks, in b's order
NewColumns(a, b) == SelectSeq(b, LAMBDA c : c \notin Range(a))

\* a row widened to the columns cols, NaN where the row has no such column
Reindex(row, cols) ==
    [c \in Range(cols) |-> IF c \in DOMAIN row THEN row[c] ELSE NaN]

\* pd.concat(dfs, ignore_index=True): outer join on the columns, rows appended
RECURSIVE ConcatColumns(_)
ConcatColumns(dfs) ==
    IF dfs = <<>> THEN <<>>
    ELSE LET head == ConcatColumns(SubSeq(dfs, 1, Len(dfs) - 1))
         IN  head \o NewColumns(head, dfs[Len(dfs)].columns)

RECURSIVE ConcatRows(_, _)
ConcatRows(dfs, cols) ==
    IF dfs = <<>> THEN <<>>
    ELSE [i \in 1..Len(dfs[1].rows) |-> Reindex(dfs[1].rows[i], cols)]
         \o ConcatRows(Tail(dfs), cols)

\* pd.concat(dfs, join="inner"): only the columns every frame has
ConcatInner(dfs) ==
    LET cols == SelectSeq(ConcatColumns(dfs),
                          LAMBDA c : \A i \in 1..Len(dfs) : c \in Range(dfs[i].columns))
    IN  [columns |-> cols, rows |-> ConcatRows(dfs, cols)]

Concat(dfs) ==
    LET cols == ConcatColumns(dfs)
    IN  [columns |-> cols, rows |-> ConcatRows(dfs, cols)]

(***************************************************************************)
(* Messages rendered with st.error.  about is the file or URL being read   *)
(* when the message is rendered.                                           *)
(***************************************************************************)
Err(msg, about) == [msg |-> msg, about |-> about]

(***************************************************************************)
(* load_file and load_csv_stringio.  A file is [name, parsed]: parsed is   *)
(* the frame pandas reads from its bytes, or Malformed when pandas raises. *)
(***************************************************************************)
\* pd.read_csv / pd.read_excel / pd.read_json inside the try of load_file
ReadOrReport(file) ==
    IF file.parsed = Malformed
    THEN [df |-> NoneDf, errs |-> <<Err("Could not read file", file.name)>>]
    ELSE [df |-> file.parsed, errs |-> <<>>]

\* load_file(file); openpyxl tells whether "import openpyxl" succeeds
load_file(file, openpyxl) ==
    IF EndsWith(file.name, ExtCsv) \/ EndsWith(file.name, ExtTxt)
    THEN ReadOrReport(file)
    ELSE IF EndsWith(file.name, ExtXlsx) \/ EndsWith(file.name, ExtXls)
         THEN IF openpyxl
              THEN ReadOrReport(file)
              ELSE [df |-> NoneDf,
                    errs |-> <<Err("Excel files require openpyxl", file.name)>>]
         ELSE IF EndsWith(file.name, ExtJson)
              THEN ReadOrReport(file)
              ELSE [df |-> NoneDf, errs |-> <<>>]

\* load_csv_stringio(StringIO(response.text), name)
load_csv_stringio(response, name) ==
    IF response.parsed = Malformed
    THEN [df |-> NoneDf, errs |-> <<Err("Could not read CSV", name)>>]
    ELSE [df |-> response.parsed, errs |-> <<>>]


(***************************************************************************)
(* get_kaggle_api, memoised by st.cache_resource on its argument.          *)
(* kaggle_json is the content of ~/.kaggle/kaggle.json, NoneStr while the  *)
(* file does not exist.  A session is the credential it authenticated     *)
(* with.                                                                   *)
(***************************************************************************)
\* KaggleApi().authenticate(): reads the credential file, raises without one
Authenticate(file) ==
    IF file = NoneStr
    THEN [raised |-> TRUE, api |-> NoneDf]
    ELSE [raised |-> FALSE, api |-> [cred |-> file]]

\* the key st.cache_resource files a call under: the argument's value
ApiMemoKey(kaggle_json_content) == kaggle_json_content

\* the body of get_kaggle_api: persist the upload, then authenticate
GetKaggleApiBody(kaggle_json_content, file) ==
    LET written == IF Truthy(kaggle_json_content) THEN kaggle_json_content ELSE file
        auth    == Authenticate(written)
    IN  [raised |-> auth.raised, api |-> auth.api, file |-> written]

\* get_kaggle_api(kaggle_json_content): a memoised call returns the stored
\* session without running the body; a raising call stores nothing
get_kaggle_api(kaggle_json_content, file, memo) ==
    LET key == ApiMemoKey(kaggle_json_content) IN
    IF key \in DOMAIN memo
    THEN [raised |-> FALSE, api |-> memo[key], file |-> file, memo |-> memo,
          ran |-> FALSE]
    ELSE LET r == GetKaggleApiBody(kaggle_json_content, file)
         IN  [raised |-> r.raised, api |-> r.api, file |-> r.file,
              memo |-> IF r.raised THEN memo ELSE (key :> r.api) @@ memo,
              ran |-> TRUE]

(***************************************************************************)
(* download_kaggle_csvs, memoised by st.cache_data(max_entries=10).  The   *)
(* memo is the sequence of stored entries, oldest first; by records the    *)
(* session whose call stored the entry.                                    *)
(***************************************************************************)
MaxEntries == 10

RaisedTransport == <<[raised |-> TRUE]>>   \* dataset_download_files raised

\* a memo that hashes the session as well
ListingMemoKeyWithSession(_api, dataset_name) == <<_api, dataset_name>>

\* the key st.cache_data files a call under: the leading underscore keeps
\* _api out of the hash, so the key is the dataset name alone
ListingMemoKey(_api, dataset_name) == <<dataset_name>>

\* csv_files = [f for f in os.listdir(temp_dir) if f.endswith(".csv")]
CsvFiles(dir) == SelectSeq(dir, LAMBDA f : EndsWith(f.name, ExtCsv))

\* the body of download_kaggle_csvs; dir is what the download left in temp_dir
DownloadBody(dir) ==
    IF dir = RaisedTransport \/ CsvFiles(dir) = <<>>
    THEN [raised |-> TRUE, listing |-> <<>>]
    ELSE [raised |-> FALSE, listing |-> CsvFiles(dir)]

\* a new entry is stored; past max_entries the oldest entry is removed
StoreEntry(memo, entry) ==
    LET grown == Append(memo, entry)
    IN  IF Len(grown) > MaxEntries THEN Tail(grown) ELSE grown

MemoIndex(memo, key) ==
    IF \E i \in 1..Len(memo) : memo[i].key = key
    THEN CHOOSE i \in 1..Len(memo) : memo[i].key = key
    ELSE 0

\* download_kaggle_csvs(_api, dataset_name)
download_kaggle_csvs(_api, dataset_name, memo, dir) ==
    LET key == ListingMemoKey(_api, dataset_name)
        i   == MemoIndex(memo, key)
    IN  IF i # 0
        THEN [raised |-> FALSE, listing |-> memo[i].value, memo |-> memo,
              downloaded |-> FALSE, by |-> memo[i].by]
        ELSE LET r == DownloadBody(dir)
             IN  [raised |-> r.raised, listing |-> r.listing,
                  memo |-> IF r.raised THEN memo
                           ELSE StoreEntry(memo, [key |-> key, by |-> _api,
                                                  dataset_name |-> dataset_name,
                                                  value |-> r.listing]),
                  downloaded |-> TRUE, by |-> _api]


(***************************************************************************)
(* tab1: file upload (lines 277-287)                                       *)
(***************************************************************************)
NoFile == [none |-> TRUE]             \* st.file_uploader returned None

\* type=["csv", "xlsx", "xls", "json", "txt"]: the uploader compares the
\* extension without regard to case
UploaderAccepts(name) ==
    \E ext \in {ExtCsv, ExtXlsx, ExtXls, ExtJson, ExtTxt} : EndsWith(Lower(name), ext)

Tab1(Files) ==
    /\ pc = "tab1"
    /\ \E f \in Files \cup {NoFile}, openpyxl \in BOOLEAN :
           /\ f # NoFile => UploaderAccepts(f.name)
           /\ uploaded_file' = f
           /\ IF f # NoFile
              THEN LET r == load_file(f, openpyxl)
                   IN  /\ input_name' = PathStem(f.name)
                       /\ df' = r.df
                       /\ errors' = errors \o r.errs
              ELSE UNCHANGED <<input_name, df, errors>>
    /\ pc' = "tab2"
    /\ UNCHANGED <<pasted_url, csv_url, prev_url, kaggle_dataset_name,
                   kaggle_csv_files, mode, selected_csvs, reports, client_calls, kaggle_json,
                   api_memo, last_api, listing_memo, last_dl, preview_title,
                   report_name>>

(***************************************************************************)
(* tab2: CSV URL (lines 291-347).  A response is what requests.get gives:  *)
(* kind "network_error" (the call raises), "http_error" (raise_for_status  *)
(* raises) or "ok", with the body text and what pd.read_csv makes of it.   *)
(***************************************************************************)
\* the st.error calls and the assignments of lines 330-347
FetchAndLoad(url, response, old_df) ==
    IF response.kind # "ok"
    THEN [df |-> old_df, errs |-> <<Err("Failed to load CSV", url)>>]
    ELSE IF Contains(Lower(response.text), HtmlMarker)
         THEN [df |-> old_df,
               errs |-> <<Err("The link does not provide raw CSV data", url)>>]
         ELSE load_csv_stringio(response, url)

Tab2(Urls, Responses) ==
    /\ pc = "tab2"
    /\ \E typed \in Urls, response \in Responses :
           /\ pasted_url' = typed
           /\ IF Truthy(typed)
              THEN LET url == RewriteLink(typed) IN
                   /\ csv_url' = url
                   /\ IF Truthy(url)
                      THEN LET r == FetchAndLoad(url, response, df)
                           IN  /\ input_name' = PathStem(url)
                               /\ df' = r.df
                               /\ errors' = errors \o r.errs
                      ELSE /\ errors' = Append(errors,
                                  Err("Invalid Google Drive link format", typed))
                           /\ UNCHANGED <<input_name, df>>
              ELSE /\ csv_url' = typed
                   /\ UNCHANGED <<input_name, df, errors>>
    /\ pc' = "tab3"
    /\ UNCHANGED <<uploaded_file, prev_url, kaggle_dataset_name,
                   kaggle_csv_files, mode, selected_csvs, reports, client_calls, kaggle_json,
                   api_memo, last_api, listing_memo, last_dl, preview_title,
                   report_name>>


(***************************************************************************)
(* Start of a script run (lines 273-274) and of the process                *)
(***************************************************************************)
NoCall == [none |-> TRUE]

RunStart ==
    /\ uploaded_file = NoFile
    /\ pasted_url = <<>>
    /\ csv_url = <<>>
    /\ df = NoneDf
    /\ input_name = DefaultName
    /\ errors = <<>>
    /\ kaggle_dataset_name = <<>>
    /\ kaggle_csv_files = <<>>
    /\ mode = "none"
    /\ selected_csvs = <<>>
    /\ reports = <<>>
    /\ client_calls = {}
    /\ preview_title = NoneStr
    /\ report_name = NoneStr

ProcessStart ==
    /\ prev_url = NoneStr
    /\ api_memo = <<>>
    /\ last_api = NoCall
    /\ listing_memo = <<>>
    /\ last_dl = NoCall

(***************************************************************************)
(* Responses of the remote host                                            *)
(***************************************************************************)
UrlTable == [columns |-> <<"u">>, rows |-> <<[u |-> <<"7">>]>>]

RespNetworkError == [kind |-> "network_error", text |-> <<>>, parsed |-> Malformed]

RespHttpError == [kind |-> "http_error", text |-> <<"4", "0", "4">>, parsed |-> Malformed]

RespHtml == [kind |-> "ok", text |-> <<"<", "H", "T", "M", "L", ">">>, parsed |-> Malformed]

RespBadCsv == [kind |-> "ok", text |-> <<"u", ",", "\"", "7">>, parsed |-> Malformed]

RespCsv == [kind |-> "ok", text |-> <<"u", " ", "7">>, parsed |-> UrlTable]

AllResponses == {RespNetworkError, RespHttpError, RespHtml, RespBadCsv, RespCsv}

(***************************************************************************)
(* Link rewriting and URL names over a family of pasted links: an optional *)
(* leading blank, a scheme, a host, up to MaxSegs path segments and a tail *)
(***************************************************************************)
MaxSegs == 3

UrlPads == {<<>>, <<" ">>}

UrlSchemes == {<<"h", "t", "t", "p", "s", ":", "/", "/">>, <<"h", "t", "t", "p", ":", "/", "/">>}

UrlHosts == {GithubHost, DriveHost, <<"e", "x", "a", "m", "p", "l", "e", ".", "c", "o", "m">>}

UrlSegments == {<<"/", "b", "l", "o", "b">>, <<"/", "d">>, <<"/", "o">>, <<"/", "x", ".", "c", "s", "v">>}

UrlTails == {<<>>, Slash, <<"?", "e", "=", "1">>}

RECURSIVE Flatten(_)
Flatten(ss) == IF ss = <<>> THEN <<>> ELSE ss[1] \o Flatten(Tail(ss))

UrlPaths == {Flatten(p) : p \in UNION {[1..k -> UrlSegments] : k \in 0..MaxSegs}}

UrlInputs ==
    {pad \o scheme \o host \o path \o tail :
        pad \in UrlPads, scheme \in UrlSchemes, host \in UrlHosts,
        path \in UrlPaths, tail \in UrlTails}

\* the next run, with the link the page displayed pasted back into the field
Repaste ==
    /\ pc = "tab3"
    /\ prev_url = NoneStr
    /\ Truthy(csv_url)
    /\ prev_url' = csv_url
    /\ pc' = "tab2"
    /\ uploaded_file' = NoFile
    /\ pasted_url' = <<>>
    /\ csv_url' = <<>>
    /\ df' = NoneDf
    /\ input_name' = DefaultName
    /\ errors' = <<>>
    /\ UNCHANGED <<kaggle_dataset_name, kaggle_csv_files, mode, selected_csvs, reports,
                   client_calls, kaggle_json, api_memo, last_api, listing_memo,
                   last_dl, preview_title, report_name>>

InitUrl == RunStart /\ ProcessStart /\ kaggle_json = NoneStr /\ pc = "tab2"

PasteLink ==
    Tab2(IF prev_url = NoneStr THEN UrlInputs ELSE {prev_url}, {RespCsv, RespHtml})

NextUrl == PasteLink \/ Repaste

SpecUrl == InitUrl /\ [][NextUrl]_vars


(***************************************************************************)
(* tab3: Kaggle dataset (lines 352-441)                                    *)
(***************************************************************************)
TempDir == <<"/", "t", "m", "p", "/", "k">>          \* tempfile.mkdtemp()

ModeSingle == "Analyze a single CSV"

ModeMerge == "Merge all CSVs (row-wise)"

ModeMulti == "Generate EDA for each CSV separately"

Modes == {ModeSingle, ModeMerge, ModeMulti}

\* open(kaggle_csv_files[csv_file], "rb"): the file object is named by its path
OpenCsv(file) == [name |-> TempDir \o Slash \o file.name, parsed |-> file.parsed]

\* the files of the listing at the positions sel, in listing order
Selected(listing, sel) ==
    LET idx == SelectSeq([i \in 1..Len(listing) |-> i], LAMBDA i : i \in sel)
    IN  [k \in 1..Len(idx) |-> listing[idx[k]]]

\* lines 394-399: the frames that load, each tagged with its file name, and
\* the messages load_file rendered on the way
RECURSIVE MergeLoop(_)
MergeLoop(listing) ==
    IF listing = <<>> THEN [dfs |-> <<>>, errs |-> <<>>]
    ELSE LET r    == load_file(OpenCsv(listing[1]), TRUE)
             rest == MergeLoop(Tail(listing))
         IN  [dfs  |-> (IF r.df # NoneDf
                        THEN <<SetColumn(r.df, SourceCol, listing[1].name)>>
                        ELSE <<>>) \o rest.dfs,
              errs |-> r.errs \o rest.errs]

\* input_name of the merged frame (line 403)
MergedName(dataset_name) == Replace(dataset_name, Slash, Underscore) \o MergedSuffix

\* a loop that a file which does not load ends
RECURSIVE MultiEdaLoopStops(_, _)
MultiEdaLoopStops(files, report_raises) ==
    IF files = <<>> THEN [errs |-> <<>>, reports |-> <<>>, raised |-> FALSE]
    ELSE LET r == load_file(OpenCsv(files[1]), TRUE) IN
         IF r.df = NoneDf
         THEN [errs |-> r.errs, reports |-> <<>>, raised |-> FALSE]
         ELSE IF files[1].name \in report_raises
              THEN [errs |-> <<>>, reports |-> <<>>, raised |-> TRUE]
              ELSE LET rest == MultiEdaLoopStops(Tail(files), report_raises)
                   IN  [errs    |-> rest.errs,
                        reports |-> <<files[1].name>> \o rest.reports,
                        raised  |-> rest.raised]

\* lines 417-438: one report per selected file that loads; report_raises are
\* the files on which ProfileReport or to_file raises, which ends the loop
RECURSIVE MultiEdaLoop(_, _)
MultiEdaLoop(files, report_raises) ==
    IF files = <<>> THEN [errs |-> <<>>, reports |-> <<>>, raised |-> FALSE]
    ELSE LET r == load_file(OpenCsv(files[1]), TRUE) IN
         IF r.df # NoneDf /\ files[1].name \in report_raises
         THEN [errs |-> <<>>, reports |-> <<>>, raised |-> TRUE]
         ELSE LET rest == MultiEdaLoop(Tail(files), report_raises)
              IN  [errs    |-> r.errs \o rest.errs,
                   reports |-> (IF r.df # NoneDf THEN <<files[1].name>> ELSE <<>>)
                               \o rest.reports,
                   raised  |-> rest.raised]

KaggleFailed(name) == Err("Kaggle download failed", name)

Call(fn, name) == [fn |-> fn, dataset |-> name]

\* lines 386-390
Tab3Single(listing) ==
    \E i \in 1..Len(listing) :
       LET r == load_file(OpenCsv(listing[i]), TRUE)
       IN  /\ df' = r.df
           /\ input_name' = PathStem(listing[i].name)
           /\ errors' = errors \o r.errs
           /\ UNCHANGED <<reports, selected_csvs>>

\* lines 393-404
Tab3Merge(name, listing) ==
    LET m == MergeLoop(listing)
    IN  /\ errors' = errors \o m.errs
        /\ UNCHANGED <<reports, selected_csvs>>
        /\ IF m.dfs # <<>>
           THEN df' = Concat(m.dfs) /\ input_name' = MergedName(name)
           ELSE UNCHANGED <<df, input_name>>

\* lines 407-438, with the handler of line 440 for a raising report
Tab3Multi(name, listing) ==
    \E sel \in SUBSET (1..Len(listing)) :
       \E report_raises \in SUBSET {listing[i].name : i \in sel} :
          LET m == MultiEdaLoop(Selected(listing, sel), report_raises)
          IN  /\ errors' = errors \o m.errs
                             \o (IF m.raised THEN <<KaggleFailed(name)>> ELSE <<>>)
              /\ reports' = m.reports
              /\ selected_csvs' = [k \in 1..Len(Selected(listing, sel)) |->
                                      Selected(listing, sel)[k].name]
              /\ UNCHANGED <<df, input_name>>

Tab3(Names, Dirs) ==
    /\ pc = "tab3"
    /\ \E name \in Names, dir \in Dirs, m \in Modes :
           /\ kaggle_dataset_name' = name
           /\ IF ~Truthy(name)
              THEN UNCHANGED <<df, input_name, errors, reports, selected_csvs, kaggle_csv_files,
                               mode, client_calls, kaggle_json, api_memo, last_api,
                               listing_memo, last_dl>>
              ELSE LET a == get_kaggle_api(NoneStr, kaggle_json, api_memo) IN
                   /\ kaggle_json' = a.file
                   /\ api_memo' = a.memo
                   /\ last_api' = [arg |-> NoneStr, raised |-> a.raised, api |-> a.api]
                   /\ IF a.raised
                      THEN /\ client_calls' = client_calls \cup
                                  {Call("get_kaggle_api", name)}
                           /\ errors' = Append(errors, KaggleFailed(name))
                           /\ UNCHANGED <<df, input_name, reports, selected_csvs, kaggle_csv_files,
                                          mode, listing_memo, last_dl>>
                      ELSE LET d == download_kaggle_csvs(a.api, name, listing_memo, dir) IN
                           /\ client_calls' = client_calls \cup
                                  {Call("get_kaggle_api", name),
                                   Call("download_kaggle_csvs", name)}
                           /\ listing_memo' = d.memo
                           /\ last_dl' = [api |-> a.api, dataset_name |-> name,
                                          raised |-> d.raised,
                                          downloaded |-> d.downloaded, by |-> d.by]
                           /\ IF d.raised
                              THEN /\ errors' = Append(errors, KaggleFailed(name))
                                   /\ UNCHANGED <<df, input_name, reports, selected_csvs,
                                                  kaggle_csv_files, mode>>
                              ELSE /\ kaggle_csv_files' = d.listing
                                   /\ mode' = m
                                   /\ CASE m = ModeSingle -> Tab3Single(d.listing)
                                        [] m = ModeMerge  -> Tab3Merge(name, d.listing)
                                        [] m = ModeMulti  -> Tab3Multi(name, d.listing)
    /\ pc' = "tab4"
    /\ UNCHANGED <<uploaded_file, pasted_url, csv_url, prev_url, preview_title,
                   report_name>>

(***************************************************************************)
(* tab4: Kaggle token upload (lines 445-456)                               *)
(***************************************************************************)
Tab4(Tokens) ==
    /\ pc = "tab4"
    /\ \E content \in Tokens \cup {NoneStr} :
           IF content = NoneStr
           THEN UNCHANGED <<kaggle_json, api_memo, last_api, errors>>
           ELSE LET a == get_kaggle_api(content, kaggle_json, api_memo) IN
                /\ kaggle_json' = a.file
                /\ api_memo' = a.memo
                /\ last_api' = [arg |-> content, raised |-> a.raised, api |-> a.api]
                /\ errors' = IF a.raised
                             THEN Append(errors, Err("Kaggle API setup failed", content))
                             ELSE errors
    /\ pc' = "preview"
    /\ UNCHANGED <<uploaded_file, pasted_url, csv_url, prev_url, df, input_name,
                   kaggle_dataset_name, kaggle_csv_files, mode, selected_csvs, reports,
                   client_calls, listing_memo, last_dl, preview_title, report_name>>

(***************************************************************************)
(* Data preview and report (lines 461-478)                                 *)
(***************************************************************************)
EdaSuffix == <<"_", "e", "d", "a", ".", "h", "t", "m", "l">>

Preview ==
    /\ pc = "preview"
    /\ IF df # NoneDf
       THEN /\ preview_title' = input_name
            /\ \E generate \in BOOLEAN :
                   report_name' = IF generate THEN input_name \o EdaSuffix ELSE NoneStr
       ELSE UNCHANGED <<preview_title, report_name>>
    /\ pc' = "done"
    /\ UNCHANGED <<uploaded_file, pasted_url, csv_url, prev_url, df, input_name,
                   errors, kaggle_dataset_name, kaggle_csv_files, mode, selected_csvs, reports,
                   client_calls, kaggle_json, api_memo, last_api, listing_memo,
                   last_dl>>


(***************************************************************************)
(* One run of the page.  The inputs are what the user supplies in the      *)
(* tabs and what the remote hosts answer.                                  *)
(***************************************************************************)
\* a credential file: i bytes
Cred(i) == [j \in 1..i |-> "k"]

UploadTable == [columns |-> <<"x">>, rows |-> <<[x |-> <<"1">>]>>]

UploadNames == {<<"a", ".", "c", "s", "v">>, <<"b", ".", "C", "S", "V">>, <<"c", ".", "x", "l", "s", "x">>}

UploadFiles == {[name |-> n, parsed |-> p] : n \in UploadNames, p \in {UploadTable, Malformed}}

PageUrls ==
    {<<>>,
     <<"h", "t", "t", "p", "s", ":", "/", "/", "e", "x", "a", "m", "p", "l", "e", ".", "c", "o", "m", "/", "x", ".", "c", "s", "v">>,
     <<"h", "t", "t", "p", "s", ":", "/", "/", "d", "r", "i", "v", "e", ".", "g", "o", "o", "g", "l", "e", ".", "c", "o", "m", "/", "o", "p", "e", "n", "?", "n", "o", "p", "e", "=", "1">>,
     <<"h", "t", "t", "p", "s", ":", "/", "/", "e", "x", "a", "m", "p", "l", "e", ".", "c", "o", "m", "/">>}

PageDatasetNames == {<<>>, <<"o", "/", "d">>, <<"t", "i", "t", "a", "n", "i", "c">>}

KaggleTableA == [columns |-> <<"x", "y">>, rows |-> <<[x |-> <<"2">>, y |-> <<"3">>]>>]

KaggleTableB == [columns |-> <<"x", "z">>, rows |-> <<[x |-> <<"4">>, z |-> <<"5">>]>>]

CsvName(i) == <<<<"a", "b", "c", "d", "e", "f", "g", "h">>[i]>> \o ExtCsv

Readme == [name |-> <<"r", ".", "m", "d">>, parsed |-> Malformed]

PageDirs ==
    {RaisedTransport,
     <<Readme>>,
     <<Readme, [name |-> CsvName(1), parsed |-> KaggleTableA]>>,
     <<[name |-> CsvName(1), parsed |-> Malformed],
       [name |-> CsvName(2), parsed |-> KaggleTableB]>>}

PageTokens == {Cred(2)}

Init ==
    /\ RunStart
    /\ ProcessStart
    /\ kaggle_json \in {NoneStr, Cred(1)}
    /\ pc = "tab1"

UploadFile == Tab1(UploadFiles)

CsvUrl == Tab2(PageUrls, AllResponses)

KaggleDataset == Tab3(PageDatasetNames, PageDirs)

KaggleToken == Tab4(PageTokens)

Next == UploadFile \/ CsvUrl \/ KaggleDataset \/ KaggleToken \/ Preview

Spec == Init /\ [][Next]_vars

(***************************************************************************)
(* The Kaggle tab over every listing of up to MaxFiles CSV files           *)
(***************************************************************************)
MaxFiles == 3

KaggleTableEmpty == [columns |-> <<"x">>, rows |-> <<>>]

KaggleTableTagged ==
    [columns |-> <<SourceCol, "y">>,
     rows    |-> <<[__source_file__ |-> <<"6">>, y |-> <<"7">>],
                   [__source_file__ |-> <<"8">>, y |-> <<"9">>]>>]

CombineContents ==
    {KaggleTableA, KaggleTableB, KaggleTableEmpty, KaggleTableTagged, Malformed}

CombineDirs ==
    UNION {{[i \in 1..n |-> [name |-> CsvName(i), parsed |-> c[i]]] :
               c \in [1..n -> CombineContents]} : n \in 1..MaxFiles}

InitCombine == RunStart /\ ProcessStart /\ kaggle_json = Cred(1) /\ pc = "tab3"

CombineDataset == Tab3({<<"o", "/", "d">>}, CombineDirs)

NextCombine == CombineDataset \/ KaggleToken \/ Preview

SpecCombine == InitCombine /\ [][NextCombine]_vars


(***************************************************************************)
(* get_kaggle_api over sequences of calls: the Kaggle tab calls it with no *)
(* argument (line 368), the token tab with the bytes of the uploaded file  *)
(* (line 454); a restart of the process empties the memo and keeps the     *)
(* credential file.                                                        *)
(***************************************************************************)
NumCreds == 2

EmptyBytes == <<>>

KaggleContents == {Cred(i) : i \in 1..NumCreds} \cup {EmptyBytes}

CallGetKaggleApi(arg) ==
    LET a == get_kaggle_api(arg, kaggle_json, api_memo) IN
    /\ kaggle_json' = a.file
    /\ api_memo' = a.memo
    /\ last_api' = [arg |-> arg, raised |-> a.raised, api |-> a.api]
    /\ UNCHANGED <<pc, uploaded_file, pasted_url, csv_url, prev_url, df,
                   input_name, errors, kaggle_dataset_name, kaggle_csv_files,
                   mode, selected_csvs, reports, client_calls, listing_memo,
                   last_dl, preview_title, report_name>>

UseSavedToken == CallGetKaggleApi(NoneStr)

UploadToken == \E content \in KaggleContents : CallGetKaggleApi(content)

Restart ==
    /\ api_memo # <<>>
    /\ api_memo' = <<>>
    /\ last_api' = NoCall
    /\ UNCHANGED <<pc, uploaded_file, pasted_url, csv_url, prev_url, df,
                   input_name, errors, kaggle_dataset_name, kaggle_csv_files,
                   mode, selected_csvs, reports, client_calls, kaggle_json,
                   listing_memo, last_dl, preview_title, report_name>>

InitKaggle == RunStart /\ ProcessStart /\ kaggle_json = NoneStr /\ pc = "kaggle"

NextKaggle == UseSavedToken \/ UploadToken \/ Restart

SpecKaggle == InitKaggle /\ [][NextKaggle]_vars

(***************************************************************************)
(* download_kaggle_csvs over sequences of calls: one dataset name more     *)
(* than the memo holds, and NumSessions sessions.  Dataset names are       *)
(* interchangeable, so a name never requested before is the next in order; *)
(* the page holds one session at a time (line 368), so a session that has  *)
(* been replaced by a newer one does not call again.                       *)
(***************************************************************************)
NumDatasets == MaxEntries + 1

DatasetName(i) == <<"o", "/">> \o [j \in 1..i |-> "d"]

NumSessions == 2

Sessions == {[cred |-> Cred(i)] : i \in 1..NumSessions}

CacheDirs ==
    {RaisedTransport, <<Readme, [name |-> CsvName(1), parsed |-> KaggleTableEmpty]>>}

Requested == {e.dataset_name : e \in Range(listing_memo)}

NextInOrder(i) ==
    IF Len(listing_memo) = MaxEntries THEN TRUE
    ELSE \A j \in 1..(i - 1) : DatasetName(j) \in Requested

NotReplaced(_api) ==
    IF last_dl = NoCall THEN TRUE ELSE Len(_api.cred) >= Len(last_dl.api.cred)

ListDataset ==
    \E _api \in Sessions, i \in 1..NumDatasets, dir \in CacheDirs :
       /\ NextInOrder(i)
       /\ NotReplaced(_api)
       /\ LET d == download_kaggle_csvs(_api, DatasetName(i), listing_memo, dir) IN
          /\ listing_memo' = d.memo
          /\ last_dl' = [api |-> _api, dataset_name |-> DatasetName(i),
                         raised |-> d.raised, downloaded |-> d.downloaded,
                         by |-> d.by]
       /\ UNCHANGED <<pc, uploaded_file, pasted_url, csv_url, prev_url, df,
                      input_name, errors, kaggle_dataset_name, kaggle_csv_files,
                      mode, selected_csvs, reports, client_calls, kaggle_json,
                      api_memo, last_api, preview_title, report_name>>

InitCache == RunStart /\ ProcessStart /\ kaggle_json = Cred(1) /\ pc = "cache"

NextCache == ListDataset

SpecCache == InitCache /\ [][NextCache]_vars


(***************************************************************************)
(* Properties                                                              *)
(***************************************************************************)

\* C1: in the URL stage of a run, when a dataset is already loaded from the
\* uploaded file and the URL load fails (a message is rendered), df after the
\* stage is the dataset it was before: neither cleared nor replaced.
C1_FailedUrlLoadKeepsUpload ==
    [][(pc = "tab2" /\ df # NoneDf /\ Len(errors') > Len(errors)) => df' = df]_vars

\* C2: a get_kaggle_api call made with no credential returns a session that
\* was authenticated with the credential the credential file holds.
C2_NoArgUsesPersistedCredential ==
    (last_api # NoCall /\ last_api.arg = NoneStr /\ ~last_api.raised)
        => last_api.api.cred = kaggle_json

\* C3: after every upload of credential content through get_kaggle_api the
\* credential file holds exactly that content.
C3_UploadOverwritesCredential ==
    (last_api # NoCall /\ Truthy(last_api.arg)) => kaggle_json = last_api.arg

\* the entries of the memo stored for the dataset name
HeldFor(memo, dataset_name) ==
    {e \in Range(memo) : e.dataset_name = dataset_name}

\* C4 as stated: a call is answered from the memo without a download exactly
\* when an entry stored by the same session for the same dataset name is held.
C4_KeyedBySessionAndDataset ==
    [][last_dl' # NoCall =>
          (~last_dl'.downloaded <=>
              \E e \in HeldFor(listing_memo, last_dl'.dataset_name) :
                  e.by = last_dl'.api)]_vars

\* C4 amended: a call is answered from the memo without a download exactly
\* when an entry for the same dataset name, stored by any session, is held;
\* the memo never holds more than max_entries entries, one per dataset name.
C4_KeyedByDatasetName ==
    [][last_dl' # NoCall =>
          /\ ~last_dl'.downloaded <=>
                 HeldFor(listing_memo, last_dl'.dataset_name) # {}
          /\ Len(listing_memo') <= MaxEntries
          /\ \A i, j \in 1..Len(listing_memo') :
                 listing_memo'[i].dataset_name = listing_memo'[j].dataset_name
                     => i = j]_vars

\* C4 witness: with the memo full, a call is answered from an entry that
\* another session stored.
C4_Witness ==
    /\ last_dl # NoCall
    /\ ~last_dl.downloaded
    /\ last_dl.by # last_dl.api
    /\ Len(listing_memo) = MaxEntries

\* the two-segment shape owner/name
IsOwnerSlashName(s) ==
    LET parts == Split(s, "/")
    IN  Len(parts) = 2 /\ parts[1] # <<>> /\ parts[2] # <<>>

\* C5: for a dataset identifier that is not of the shape owner/name the Kaggle
\* tab invokes neither get_kaggle_api nor download_kaggle_csvs.
C5_BadShapeRejectedBeforeClient ==
    (pc = "tab4" /\ ~IsOwnerSlashName(kaggle_dataset_name)) => client_calls = {}

\* C6: pasting the rewritten link back rewrites it to itself.
C6_RewriteIdempotent ==
    (pc = "tab3" /\ prev_url # NoneStr) => csv_url = prev_url

HasSupportedSuffix(name) ==
    \E ext \in {ExtCsv, ExtTxt, ExtXlsx, ExtXls, ExtJson} : EndsWith(name, ext)

\* C7: load_file on a file whose name ends with none of the five suffixes
\* yields no dataset and renders a failure message for the file.
C7_UnsupportedFormatReported ==
    (pc = "tab2" /\ uploaded_file # NoFile /\ ~HasSupportedSuffix(uploaded_file.name))
        => /\ df = NoneDf
           /\ \E i \in 1..Len(errors) : errors[i].about = uploaded_file.name

\* the part of s before the first occurrence of one of the characters stops
Before(s, stops) ==
    IF \E i \in 1..Len(s) : s[i] \in stops
    THEN SubSeq(s, 1, (CHOOSE i \in 1..Len(s) :
                          s[i] \in stops /\ \A j \in 1..(i - 1) : s[j] \notin stops) - 1)
    ELSE s

\* the path of a URL: what follows the host, up to the query or fragment
UrlPath(u) ==
    LET mark  == <<":", "/", "/">>
        at    == IF Contains(u, mark)
                 THEN CHOOSE i \in 1..Len(u) :
                          MatchAt(u, mark, i) /\ \A j \in 1..(i - 1) : ~MatchAt(u, mark, j)
                 ELSE 0
        rest  == IF at = 0 THEN u ELSE SubSeq(u, at + 3, Len(u))
        host  == Before(rest, {"/", "?", "#"})
    IN  Before(SubSeq(rest, Len(host) + 1, Len(rest)), {"?", "#"})

\* the name the claim derives from a URL
UrlSegmentName(u) ==
    LET segs == SelectSeq(Split(UrlPath(u), "/"), LAMBDA p : p # <<>>)
        last == segs[Len(segs)]
        dot  == RFind(last, ".")
    IN  IF segs = <<>> THEN DefaultName
        ELSE IF 1 < dot /\ dot < Len(last) THEN SubSeq(last, 1, dot - 1) ELSE last

\* C8: the name derived for a URL source is the final path segment of the
\* rewritten URL without its extension, and "dataset" when the path has none.
C8_UrlNameIsLastSegment ==
    (pc = "tab3" /\ Truthy(csv_url)) => input_name = UrlSegmentName(Strip(csv_url))

\* the files of a listing that parse, in listing order
ParsedFiles(listing) == SelectSeq(listing, LAMBDA f : f.parsed # Malformed)

RECURSIVE RowCount(_)
RowCount(files) ==
    IF files = <<>> THEN 0 ELSE Len(files[1].parsed.rows) + RowCount(Tail(files))

\* the file and the row that the k-th row of the concatenation comes from
RECURSIVE RowHome(_, _)
RowHome(files, k) ==
    IF k <= Len(files[1].parsed.rows)
    THEN [file |-> files[1], row |-> files[1].parsed.rows[k]]
    ELSE RowHome(Tail(files), k - Len(files[1].parsed.rows))

\* C9: in merge mode, when at least one file of the listing parses, df is the
\* rows of exactly the files that parse, in listing order; every row carries
\* its file name in __source_file__; the columns are the union of the files'
\* columns and __source_file__; a cell of a column the row's file lacks is NaN.
C9_MergeIsTaggedConcat ==
    (pc = "tab4" /\ mode = ModeMerge /\ ParsedFiles(kaggle_csv_files) # <<>>) =>
        LET files == ParsedFiles(kaggle_csv_files)
            cols  == UNION {Range(files[i].parsed.columns) : i \in 1..Len(files)}
                        \cup {SourceCol}
        IN  /\ df # NoneDf
            /\ Len(df.rows) = RowCount(files)
            /\ Range(df.columns) = cols
            /\ Len(df.columns) = Cardinality(cols)
            /\ \A k \in 1..Len(df.rows) :
                  LET home == RowHome(files, k) IN
                  /\ DOMAIN df.rows[k] = cols
                  /\ df.rows[k][SourceCol] = home.file.name
                  /\ \A c \in cols \ {SourceCol} :
                        df.rows[k][c] = IF c \in DOMAIN home.row THEN home.row[c] ELSE NaN

\* C9 witness: a merge of a listing with a file that does not parse and two
\* that do with different columns, so that a row holds NaN.
C9_Witness ==
    /\ pc = "tab4"
    /\ mode = ModeMerge
    /\ Len(ParsedFiles(kaggle_csv_files)) = 2
    /\ Len(kaggle_csv_files) = 3
    /\ df # NoneDf
    /\ \E k \in 1..Len(df.rows) : \E c \in DOMAIN df.rows[k] : df.rows[k][c] = NaN

\* the messages load_file renders for the files of the sequence, in order
ReadFailures(files) ==
    LET bad == SelectSeq(files, LAMBDA f : f.parsed = Malformed)
    IN  [i \in 1..Len(bad) |-> Err("Could not read file", TempDir \o Slash \o bad[i].name)]

FileNamed(listing, name) == CHOOSE f \in Range(listing) : f.name = name

NamesOf(files) == [i \in 1..Len(files) |-> files[i].name]

NameOfShownSource ==
    IF mode = ModeSingle
    THEN PathStem((CHOOSE f \in Range(kaggle_csv_files) : f.parsed = df).name)
    ELSE IF mode = ModeMerge /\ SourceCol \in Range(df.columns)
         THEN MergedName(kaggle_dataset_name)
         ELSE IF uploaded_file # NoFile /\ df = uploaded_file.parsed
              THEN PathStem(uploaded_file.name)
              ELSE PathStem(csv_url)

\* C11: at the preview and report stage, whenever df is not None, input_name
\* (and with it the preview title and the report file name <input_name>_eda.html)
\* is the name derived from the input source whose load produced df.
C11_PreviewNamesShownDataset ==
    (pc \in {"preview", "done"} /\ df # NoneDf) =>
        /\ input_name = NameOfShownSource
        /\ pc = "done" => preview_title = NameOfShownSource
        /\ (pc = "done" /\ report_name # NoneStr) =>
              report_name = NameOfShownSource \o EdaSuffix

====
